---- MODULE Spec2Model ----
(***************************************************************************)
(* A model of the relational graph convolution (gnn/compgcn_conv.py) and   *)
(* of the band-distance loss (loss.py).                                    *)
(*                                                                         *)
(* Tensors are functions over 0..n-1, so that the indices are the ones of  *)
(* the source.  Numbers are exact: an entry of an embedding is an integer, *)
(* a degree-normalisation weight is 0, +inf, nan or deg^(-1/2) kept as the *)
(* radicand deg, and an aggregated entry is a linear combination           *)
(* sum_k c[k] / sqrt(k) with integer coefficients c[k].                    *)
(***************************************************************************)
EXTENDS Integers, Sequences, FiniteSets, TLC

VARIABLES
    layer,      \* a CompGCNConv: its configuration and its parameters
    attrs,      \* the attributes forward sets on the layer (self.in_index, ...)
    call,       \* the arguments of the layer's last forward call
    res,        \* what that call returned or raised
    drawn,      \* the entries that call's two dropouts kept
    memo,       \* the layer's first forward call and its result (a history)
    normCall,   \* the arguments of a compute_norm call
    normOut,    \* what the call returned: [status, norm]
    distCall,   \* an InvLReLUDistance and the argument of its forward call
    distOut,    \* what the call returned
    lossObj,    \* an AnswerSpaceLoss: the arguments of __init__, and its fields
    lossCall,   \* the arguments of its forward call
    lossRes     \* what the call returned or raised, with its locals

vars == <<layer, attrs, call, res, drawn, memo, normCall, normOut, distCall, distOut,
          lossObj, lossCall, lossRes>>

convVars == <<layer, attrs, call, res, drawn, memo>>
normVars == <<normCall, normOut>>
distVars == <<distCall, distOut>>
lossVars == <<lossObj, lossCall, lossRes>>

\* a call that was not made yet, and one that returned
NoResult == [status |-> "none"]

\* ---------------------------------------------------------------- bounds
MaxNodes == 3       \* num_ent ranges over 1..MaxNodes
MaxEdges == 2       \* edge_index.size(1) ranges over 0..MaxEdges
MaxRelRows == 2     \* rel_embed.size(0) ranges over 0..MaxRelRows
MaxBands == 3       \* num_bands ranges over 1..MaxBands
MaxHyper == 2       \* num_hyperplanes ranges over 1..MaxHyper
MaxBatch == 1       \* batch_size ranges over 1..MaxBatch

\* ---------------------------------------------------------------- tensors
Size(t) == Cardinality(DOMAIN t)

Tensors(n, S) == [0..(n - 1) -> S]

Empty == [k \in {} |-> 0]

\* ------------------------------------------------ degree normalisation
\* The values deg.pow(-0.5) can take: deg is a count, so the power is +inf at
\* 0 and deg^(-1/2) elsewhere.
Zero == [kind |-> "zero"]
Inf == [kind |-> "inf"]
NaN == [kind |-> "nan"]
RSqrt(n) == [kind |-> "rsqrt", r |-> n]

PowMinusHalf(deg) == IF deg = 0 THEN Inf ELSE RSqrt(deg)

\* deg_inv[deg_inv == float('inf')] = 0
ReplaceInf(w) == IF w = Inf THEN Zero ELSE w

\* the product of two weights, with the IEEE rules for 0, inf and nan
WMul(a, b) ==
    IF a = NaN \/ b = NaN THEN NaN
    ELSE IF (a = Zero /\ b = Inf) \/ (a = Inf /\ b = Zero) THEN NaN
    ELSE IF a = Zero \/ b = Zero THEN Zero
    ELSE IF a = Inf \/ b = Inf THEN Inf
    ELSE RSqrt(a.r * b.r)

\* scatter_add(edge_weight, row, dim=0, dim_size=num_ent) with edge_weight = 1
ScatterOnes(index, num_ent) ==
    [v \in 0..(num_ent - 1) |-> Cardinality({k \in DOMAIN index : index[k] = v})]

\* a faulty variant of DegInv: the infinities are left in
DegInvNoReplace(deg) == [v \in DOMAIN deg |-> PowMinusHalf(deg[v])]

\* deg.pow(-0.5), then deg_inv[deg_inv == float('inf')] = 0
DegInv(deg) == [v \in DOMAIN deg |-> ReplaceInf(PowMinusHalf(deg[v]))]

compute_norm(edge_index, num_ent) ==
    LET row == edge_index[0]
        col == edge_index[1]
        deg == ScatterOnes(row, num_ent)
        deg_inv == DegInv(deg)
    IN  [k \in DOMAIN row |-> WMul(WMul(deg_inv[row[k]], RSqrt(1)), deg_inv[col[k]])]

\* ------------------------------------------------ exact numbers
\* The radicands a weight deg(row)^(-1/2) * deg(col)^(-1/2) can have.
Rads == {a * b : a \in 1..MaxEdges, b \in 1..MaxEdges}

\* A number sum_k c[k] / sqrt(k), as its coefficients c.
NumZero == [k \in Rads |-> 0]
NumOfInt(v) == [k \in Rads |-> IF k = 1 THEN v ELSE 0]
NumAdd(a, b) == [k \in Rads |-> a[k] + b[k]]
NumTimesInt(a, n) == [k \in Rads |-> a[k] * n]

\* the integer v times a weight compute_norm returned (0 or r^(-1/2))
NumTimesWeight(v, w) == [k \in Rads |-> IF w.kind = "rsqrt" /\ w.r = k THEN v ELSE 0]

RECURSIVE SumTo(_, _)
\* t[0] + ... + t[n-1] for a tensor of integers
SumTo(t, n) == IF n = 0 THEN 0 ELSE t[n - 1] + SumTo(t, n - 1)

RECURSIVE NumSumTo(_, _)
\* t[0] + ... + t[n-1] for a tensor of numbers
NumSumTo(t, n) == IF n = 0 THEN NumZero ELSE NumAdd(t[n - 1], NumSumTo(t, n - 1))

\* ------------------------------------------------ vectors and matrices
Dim == 2            \* in_channels = out_channels = embed_dim
Feats == 0..(Dim - 1)

\* torch.mm of one row with a Dim x Dim weight
RowTimesMatrix(x, W) == [j \in Feats |-> SumTo([i \in Feats |-> x[i] * W[i][j]], Dim)]

\* torch.cat([a, b], dim=0)
Cat(a, b) ==
    [k \in 0..(Size(a) + Size(b) - 1) |-> IF k < Size(a) THEN a[k] ELSE b[k - Size(a)]]

\* t[lo:hi]
Slice(t, lo, hi) == [k \in 0..(hi - lo - 1) |-> t[k + lo]]

\* t[:-1]
DropLast(t) == Slice(t, 0, Size(t) - 1)

\* t[1:]
DropFirst(t) == Slice(t, 1, Size(t))

\* edge_index.flip(0)
Flip(ei) == [d \in {0, 1} |-> ei[1 - d]]

\* torch.cat([a, b], dim=1) of two (2, m) tensors
CatColumns(a, b) == [d \in {0, 1} |-> Cat(a[d], b[d])]

\* ei[:, lo:hi]
Columns(ei, lo, hi) == [d \in {0, 1} |-> Slice(ei[d], lo, hi)]

\* ------------------------------------------------ CompGCNConv
Operators == {"sub", "mult", "corr"}

\* helper.ccorr: the circular correlation, irfft(conj(rfft(a)) * rfft(b))
ccorr(a, b) == [k \in Feats |-> SumTo([i \in Feats |-> a[i] * b[(i + k) % Dim]], Dim)]

rel_transform(opn, ent_embed, rel_embed) ==
    IF opn = "corr" THEN ccorr(ent_embed, rel_embed)
    ELSE IF opn = "sub" THEN [j \in Feats |-> ent_embed[j] - rel_embed[j]]
    ELSE [j \in Feats |-> ent_embed[j] * rel_embed[j]]

\* a faulty variant of RelTransformRaises: an unknown name is let through
RelTransformAccepts(opn) == FALSE

\* what rel_transform raises: NotImplementedError on an unknown name
RelTransformRaises(opn) == opn \notin Operators

\* a faulty variant of WeightOf: every mode uses w_in
WeightOfIn(self, mode) == self.w_in

\* getattr(self, 'w_{}'.format(mode))
WeightOf(self, mode) ==
    IF mode = "in" THEN self.w_in
    ELSE IF mode = "out" THEN self.w_out
    ELSE self.w_loop

\* torch.index_select(rel_embed, 0, edge_type) raises on an index outside
\* [0, rel_embed.size(0))
IndexSelectRaises(rel_embed, edge_type) ==
    \E k \in DOMAIN edge_type : edge_type[k] \notin DOMAIN rel_embed

\* what a call of message raises, or "ok"
MessageRaises(self, edge_type, rel_embed) ==
    IF IndexSelectRaises(rel_embed, edge_type) THEN "IndexError"
    ELSE IF RelTransformRaises(self.opn) THEN "NotImplementedError"
    ELSE "ok"

\* edge_norm: None, or one weight per edge
NoNorm == [none |-> TRUE]
Norm(w) == [none |-> FALSE, w |-> w]

\* one row per edge: out if edge_norm is None else out * edge_norm.view(-1, 1)
message(self, x_j, edge_type, rel_embed, edge_norm, mode) ==
    LET weight == WeightOf(self, mode)
        out == [k \in DOMAIN edge_type |->
                   RowTimesMatrix(rel_transform(self.opn, x_j[k], rel_embed[edge_type[k]]),
                                  weight)]
    IN  [k \in DOMAIN edge_type |->
            [j \in Feats |->
                IF edge_norm.none THEN NumOfInt(out[k][j])
                ELSE NumTimesWeight(out[k][j], edge_norm.w[k])]]

update(aggr_out) == aggr_out

\* MessagePassing.propagate('add', ...): x_j is x at edge_index[1], the
\* messages are summed at edge_index[0]
propagate(self, edge_index, x, edge_type, rel_embed, edge_norm, mode) ==
    LET x_j == [k \in DOMAIN edge_type |-> x[edge_index[1][k]]]
        out == message(self, x_j, edge_type, rel_embed, edge_norm, mode)
        m == Size(edge_type)
    IN  update([v \in DOMAIN x |->
                   [j \in Feats |->
                       NumSumTo([k \in 0..(m - 1) |->
                                    IF edge_index[0][k] = v THEN out[k][j] ELSE NumZero], m)]])

\* torch.nn.Dropout(rate) on a module in training mode, the mode a module is
\* constructed in: rate 0 changes nothing; otherwise keep[v][j] says which
\* entries the call's random draw keeps, and a kept entry is scaled by
\* 1 / (1 - rate).  rate is the fraction rate.n / rate.d.
DropScale(rate) == rate.d \div (rate.d - rate.n)

KeepAll(n) == [v \in 0..(n - 1) |-> [j \in Feats |-> TRUE]]

\* the draws explored: everything kept, every other entry kept
KeepMasks(n) ==
    {KeepAll(n), [v \in 0..(n - 1) |-> [j \in Feats |-> (v + j) % 2 = 0]]}

\* a faulty variant of Draws: entries are dropped at rate 0 too
DrawsAtAnyRate(rate, n) == KeepMasks(n)

\* the draws a dropout of this rate can make over n rows
Draws(rate, n) == IF rate.n = 0 THEN {KeepAll(n)} ELSE KeepMasks(n)

Dropout(rate, keep, t) ==
    [v \in DOMAIN t |->
        [j \in Feats |->
            IF keep[v][j] THEN NumTimesInt(t[v][j], DropScale(rate)) ELSE NumZero]]

\* torch.nn.BatchNorm1d in training mode normalises each row with the
\* statistics of the whole batch: row v of the result is a function of the
\* batch and of v, which is all the model keeps of it.  One row is refused
\* ("Expected more than 1 value per channel when training").
BatchNormRaises(num_ent) == num_ent = 1

BatchNorm(batch) == [v \in DOMAIN batch |-> [kind |-> "bn", batch |-> batch, at |-> v]]

\* a row whose entries are num[j] / den
LinRow(num, den) == [kind |-> "lin", num |-> num, den |-> den]

\* a row of an input tensor, as a row of the output
InputRow(x) == LinRow([j \in Feats |-> NumOfInt(x[j])], 1)

\* a faulty variant of ApplyMask: the rows outside the mask are the ones restored
ApplyMaskComplement(out, ent_embed, ent_mask) ==
    [v \in DOMAIN out |-> IF ent_mask.sel[v] THEN out[v] ELSE InputRow(ent_embed[v])]

\* out[ent_mask] = ent_embed[ent_mask], ent_mask a tensor of booleans
ApplyMask(out, ent_embed, ent_mask) ==
    [v \in DOMAIN out |-> IF ent_mask.sel[v] THEN InputRow(ent_embed[v]) ELSE out[v]]

\* if ent_mask is not None: out[ent_mask] = ent_embed[ent_mask]
MaskRows(out, ent_embed, ent_mask) ==
    IF ent_mask.none THEN out ELSE ApplyMask(out, ent_embed, ent_mask)

\* rel_embed = torch.cat([rel_embed, self.loop_rel], dim=0)
RelCat(self, inp) == Cat(inp.rel_embed, self.loop_rel)

\* a faulty variant of OutType: the inverse relations are not shifted
OutTypeUnshifted(edge_type, rel_embed) == edge_type

\* edge_type + rel_embed.shape[0] // 2, rel_embed being the concatenation
OutType(edge_type, rel_embed) ==
    [k \in DOMAIN edge_type |-> edge_type[k] + Size(rel_embed) \div 2]

\* torch.full((num_ent,), rel_embed.size(0)-1)
LoopType(num_ent, rel_embed) == [v \in 0..(num_ent - 1) |-> Size(rel_embed) - 1]

\* torch.cat([edge_index, edge_index.flip(0)], dim=1)
WithInverse(edge_index) == CatColumns(edge_index, Flip(edge_index))

\* the attributes forward sets on the layer before it propagates
ForwardAttrs(self, inp) ==
    LET rel_embed == RelCat(self, inp)
        num_edges == Size(inp.edge_index[0])
        edge_index == WithInverse(inp.edge_index)
        num_ent == Size(inp.ent_embed)
        in_index == Columns(edge_index, 0, num_edges)
        out_index == Columns(edge_index, num_edges, 2 * num_edges)
    IN  [device |-> "set",
         in_index |-> in_index,
         out_index |-> out_index,
         in_type |-> inp.edge_type,
         out_type |-> OutType(inp.edge_type, rel_embed),
         loop_index |-> [d \in {0, 1} |-> [v \in 0..(num_ent - 1) |-> v]],
         loop_type |-> LoopType(num_ent, rel_embed),
         in_norm |-> compute_norm(in_index, num_ent),
         out_norm |-> compute_norm(out_index, num_ent)]

\* the first exception the three propagate calls and the batch norm raise
ForwardRaises(self, inp) ==
    LET rel_embed == RelCat(self, inp)
        a == ForwardAttrs(self, inp)
        e_in == MessageRaises(self, a.in_type, rel_embed)
        e_loop == MessageRaises(self, a.loop_type, rel_embed)
        e_out == MessageRaises(self, a.out_type, rel_embed)
    IN  IF e_in # "ok" THEN e_in
        ELSE IF e_loop # "ok" THEN e_loop
        ELSE IF e_out # "ok" THEN e_out
        ELSE IF self.use_bn /\ BatchNormRaises(Size(inp.ent_embed)) THEN "ValueError"
        ELSE "ok"

\* drop(in_res)*(1/3) + drop(out_res)*(1/3) + loop_res*(1/3), in thirds
Combine(rate, keep_in, keep_out, in_res, out_res, loop_res) ==
    LET di == Dropout(rate, keep_in, in_res)
        do == Dropout(rate, keep_out, out_res)
    IN  [v \in DOMAIN loop_res |->
            [j \in Feats |-> NumAdd(NumAdd(di[v][j], do[v][j]), loop_res[v][j])]]

\* a faulty variant of RelOut: the first row is dropped instead of the last
RelOutDropFirst(rel_embed, w_rel) ==
    DropFirst([k \in DOMAIN rel_embed |-> RowTimesMatrix(rel_embed[k], w_rel)])

\* torch.matmul(rel_embed, self.w_rel)[:-1]
RelOut(rel_embed, w_rel) ==
    DropLast([k \in DOMAIN rel_embed |-> RowTimesMatrix(rel_embed[k], w_rel)])

\* what forward returns when nothing raises
ForwardValue(self, inp, keep_in, keep_out) ==
    LET rel_embed == RelCat(self, inp)
        a == ForwardAttrs(self, inp)
        x == inp.ent_embed
        in_res == propagate(self, a.in_index, x, a.in_type, rel_embed, Norm(a.in_norm), "in")
        loop_res == propagate(self, a.loop_index, x, a.loop_type, rel_embed, NoNorm, "loop")
        out_res == propagate(self, a.out_index, x, a.out_type, rel_embed, Norm(a.out_norm), "out")
        thirds == Combine(self.dropout, keep_in, keep_out, in_res, out_res, loop_res)
        biased == IF self.use_bias
                  THEN [v \in DOMAIN x |->
                           [j \in Feats |-> NumAdd(thirds[v][j], NumOfInt(3 * self.bias[j]))]]
                  ELSE thirds
        rows == [v \in DOMAIN x |-> LinRow(biased[v], 3)]
        out == IF self.use_bn THEN BatchNorm(rows) ELSE rows
    IN  [status |-> "ok",
         out |-> MaskRows(out, x, inp.ent_mask),
         rel |-> RelOut(rel_embed, self.w_rel)]

forward(self, inp, keep_in, keep_out) ==
    LET e == ForwardRaises(self, inp)
    IN  IF e # "ok" THEN [status |-> "error", error |-> e]
        ELSE ForwardValue(self, inp, keep_in, keep_out)

\* ------------------------------------------------ fractions
\* n / d with d > 0
Rat(n, d) == [n |-> n, d |-> d]
RatEq(a, b) == a.n * b.d = b.n * a.d
RatLess(a, b) == a.n * b.d < b.n * a.d
RatLeq(a, b) == a.n * b.d <= b.n * a.d

RECURSIVE Gcd(_, _)
Gcd(a, b) == IF b = 0 THEN a ELSE Gcd(b, a % b)

Abs(a) == IF a < 0 THEN -a ELSE a

\* n / d in lowest terms
Lowest(n, d) == LET g == Gcd(Abs(n), d) IN Rat(n \div g, d \div g)

RatAdd(a, b) == Lowest(a.n * b.d + b.n * a.d, a.d * b.d)
RatSub(a, b) == Lowest(a.n * b.d - b.n * a.d, a.d * b.d)
RatTimes(a, b) == Lowest(a.n * b.n, a.d * b.d)
RatOverInt(a, k) == Lowest(a.n, a.d * k)

RECURSIVE RatSumTo(_, _)
\* t[0] + ... + t[n-1] for a tensor of fractions
RatSumTo(t, n) == IF n = 0 THEN Rat(0, 1) ELSE RatAdd(t[n - 1], RatSumTo(t, n - 1))

\* torch.mean over a tensor of fractions
RatMean(t) == RatOverInt(RatSumTo(t, Size(t)), Size(t))

Min2(a, b) == IF a < b THEN a ELSE b
Max2(a, b) == IF a > b THEN a ELSE b

RECURSIVE Power(_, _)
Power(a, k) == IF k = 0 THEN 1 ELSE a * Power(a, k - 1)

\* ------------------------------------------------ InvLReLUDistance
\* a faulty variant of inv_leakyReLU: the slope is added on the positive side
inv_leakyReLU_plus(pos_slope, x) ==
    Rat(-Min2(x, 0) * pos_slope.d + pos_slope.n * Max2(0, x), pos_slope.d)

\* _inv_leakyReLU: -min(x, 0) - pos_slope * max(0, x), pos_slope a fraction
inv_leakyReLU(pos_slope, x) ==
    Rat(-Min2(x, 0) * pos_slope.d - pos_slope.n * Max2(0, x), pos_slope.d)

\* InvLReLUDistance.forward: x is (batch_size, num_bands, num_hyperplanes),
\* the result (batch_size, num_bands)
InvLReLUForward(pos_slope, x) ==
    [b \in DOMAIN x |->
        [band \in DOMAIN x[b] |->
            RatSumTo([h \in DOMAIN x[b][band] |-> inv_leakyReLU(pos_slope, x[b][band][h])],
                     Size(x[b][band]))]]

\* ------------------------------------------------ AnswerSpaceLoss
Aggregations == {"min", "mean", "softmin"}

\* __init__: the assert raises unless the interpreter strips asserts (-O)
LossInitRaises(aggr, asserts) == asserts /\ aggr \notin Aggregations

\* _calc_dot: (batch_size, num_bands, num_hyperplanes)
calc_dot(hyp, y) ==
    [b \in DOMAIN hyp |->
        [band \in DOMAIN hyp[b] |->
            [h \in DOMAIN hyp[b][band] |->
                SumTo([e \in Feats |-> hyp[b][band][h][e] * y[b][e]], Dim)]]]

RECURSIVE MaxTo(_, _)
\* the largest of t[0..n-1], n > 0
MaxTo(t, n) == IF n = 1 THEN t[0] ELSE Max2(t[n - 1], MaxTo(t, n - 1))

RECURSIVE RatMinTo(_, _)
\* torch.min over t[0..n-1], n > 0
RatMinTo(t, n) ==
    IF n = 1 THEN t[0]
    ELSE LET m == RatMinTo(t, n - 1) IN IF RatLess(t[n - 1], m) THEN t[n - 1] ELSE m

\* the distance d as an integer: the distances of the slopes explored are whole
Whole(d) == d.n \div d.d

\* nn.Softmin(dim=1) on one sample: exp(-d[b]) / sum_j exp(-d[j]), with exp(-1)
\* the fraction base and every exponent shifted by the smallest distance
Softmin(base, d) ==
    LET lo == Whole(RatMinTo(d, Size(d)))
        e == [b \in DOMAIN d |-> Whole(d[b]) - lo]
        K == MaxTo(e, Size(d))
        u == [b \in DOMAIN d |-> Power(base.n, e[b]) * Power(base.d, K - e[b])]
        U == SumTo(u, Size(d))
    IN  [b \in DOMAIN d |-> Rat(u[b], U)]

\* a faulty variant of PositiveAggregate: softmin weights without the distances
PositiveAggregateWeightsOnly(aggr, base, d) ==
    IF aggr = "min" THEN RatMinTo(d, Size(d))
    ELSE IF aggr = "mean" THEN RatMean(d)
    ELSE RatMean(Softmin(base, d))

\* the aggregate p of one sample's band distances d; aggr is one of the three
PositiveAggregate(aggr, base, d) ==
    IF aggr = "min" THEN RatMinTo(d, Size(d))
    ELSE IF aggr = "mean" THEN RatMean(d)
    ELSE LET w == Softmin(base, d)
         IN  RatMean([b \in DOMAIN d |-> RatTimes(d[b], w[b])])

\* forward, on an object __init__ returned
LossForward(obj, inp) ==
    LET d_true == InvLReLUForward(obj.pos_slope, calc_dot(inp.hyp, inp.pos_embeds))
        d_false == InvLReLUForward(obj.pos_slope, calc_dot(inp.hyp, inp.neg_embeds))
    IN  IF obj.aggr \notin Aggregations
        THEN [status |-> "error", error |-> "UnboundLocalError"]
        ELSE LET p == [b \in DOMAIN d_true |-> PositiveAggregate(obj.aggr, obj.base, d_true[b])]
                 n == [b \in DOMAIN d_false |-> RatMean(d_false[b])]
                 loss == [b \in DOMAIN p |-> RatSub(p[b], n[b])]
             IN  [status |-> "ok", d_true |-> d_true, p |-> p,
                  ret |-> <<RatMean(loss), RatMean(p), RatMean(n)>>]

\* ------------------------------------------------ inputs
NodeCounts == 1..MaxNodes
EdgeCounts == 0..MaxEdges
RelRowCounts == 0..MaxRelRows

EdgeIndices(n, m) == [{0, 1} -> Tensors(m, 0..(n - 1))]

\* the edge lists whose edges run from a node to itself or to the next node
\* (the last node's next node being node 0)
NearEdgeIndices(n, m) ==
    {ei \in EdgeIndices(n, m) :
        \A k \in 0..(m - 1) : (ei[1][k] - ei[0][k]) % n \in {0, 1}}

NormCalls ==
    UNION {UNION {{[edge_index |-> ei, num_ent |-> n] : ei \in EdgeIndices(n, m)}
                  : m \in EdgeCounts} : n \in NodeCounts}

\* the row (v, v+1, ...) of an embedding
RowOf(v) == [j \in Feats |-> v + j]

\* entity embeddings whose rows all differ, and relation embeddings likewise
EntEmbeds(n) == {[i \in 0..(n - 1) |-> RowOf(1 + 2 * i)]}
RelEmbeds(r) == {[k \in 0..(r - 1) |-> RowOf(1 - k)]}

\* ent_mask: None, or one boolean per node
NoMask == [none |-> TRUE]

\* no mask, every node, the first node, the last node
SomeMasks(n) ==
    {NoMask} \cup {[none |-> FALSE, sel |-> [v \in 0..(n - 1) |-> v \in S]] :
                       S \in {0..(n - 1), {0}, {n - 1}}}

\* the relation ids the caller may pass with r relation rows (r = 2E): [0, E)
ValidTypes(r) == 0..(r \div 2 - 1)

\* the same with the ids next to them: -1, the inverse ids, the self-loop id
\* and the first index past it
AnyTypes(r) == (-1)..(r + 1)

CallsOver(n, r, m, types, masks) ==
    {[ent_embed |-> x, rel_embed |-> re, edge_index |-> ei, edge_type |-> et,
      ent_mask |-> mk] :
        x \in EntEmbeds(n), re \in RelEmbeds(r), ei \in NearEdgeIndices(n, m),
        et \in Tensors(m, types), mk \in masks}

\* the masks explored over n nodes: some masks, or no mask
MasksOf(masks, n) == IF masks = "some" THEN SomeMasks(n) ELSE {NoMask}

\* calls the caller's contract allows, over graphs of up to nodes nodes and
\* edges edges
ValidCalls(nodes, edges, masks) ==
    UNION {CallsOver(t[1], t[2], t[3], ValidTypes(t[2]), MasksOf(masks, t[1])) :
               t \in (1..nodes) \X RelRowCounts \X (0..edges)}

\* calls whose relation ids may lie outside [0, E), without a mask
UncheckedCalls(nodes, edges) ==
    UNION {CallsOver(t[1], t[2], t[3], AnyTypes(t[2]), {NoMask}) :
               t \in (1..nodes) \X RelRowCounts \X (0..edges)}

\* N=4, E=2, edge_index=[[0,1],[1,2]], edge_type=[0,1], no mask
ScenarioCalls ==
    {[ent_embed |-> x, rel_embed |-> re,
      edge_index |-> [d \in {0, 1} |-> [k \in {0, 1} |-> k + d]],
      edge_type |-> [k \in {0, 1} |-> k],
      ent_mask |-> NoMask] : x \in EntEmbeds(4), re \in RelEmbeds(4)}

\* ------------------------------------------------ layers
Diag(c) == [i \in Feats |-> [j \in Feats |-> IF i = j THEN c ELSE 0]]
Shift(c) == [i \in Feats |-> [j \in Feats |-> IF j = (i + 1) % Dim THEN c ELSE 0]]

\* parameters as get_param and training may leave them
UnitParams ==
    [w_loop |-> Diag(1), w_in |-> Diag(1), w_out |-> Diag(1), w_rel |-> Diag(1),
     loop_rel |-> [k \in {0} |-> RowOf(2)], bias |-> [j \in Feats |-> 0]]
MixedParams ==
    [w_loop |-> Diag(3), w_in |-> Diag(2), w_out |-> Shift(1), w_rel |-> Shift(2),
     loop_rel |-> [k \in {0} |-> RowOf(3)], bias |-> [j \in Feats |-> 1 + j]]

\* dropout rates, as fractions n / d
NoDropout == [n |-> 0, d |-> 1]
DropRates == {NoDropout, [n |-> 1, d |-> 2]}

\* the names a caller may give as opn: the three operators and another name
OperatorNames == Operators \cup {"rotate"}

\* CompGCNConv.__init__
NewLayer(opn, use_bias, use_bn, dropout, params) ==
    [opn |-> opn, use_bias |-> use_bias, use_bn |-> use_bn, dropout |-> dropout,
     w_loop |-> params.w_loop, w_in |-> params.w_in, w_out |-> params.w_out,
     w_rel |-> params.w_rel, loop_rel |-> params.loop_rel, bias |-> params.bias]

\* every configuration
Layers ==
    {NewLayer(opn, ub, bn, dr, MixedParams) :
        opn \in OperatorNames, ub \in BOOLEAN, bn \in BOOLEAN, dr \in DropRates}

\* opn='sub', use_bias=False, use_bn=False, dropout=0
PlainLayers == {NewLayer("sub", FALSE, FALSE, NoDropout, ps) : ps \in {UnitParams, MixedParams}}

NoAttrs == [device |-> "None"]
NoMemo == [status |-> "none"]
Idle == [status |-> "idle"]

\* every configuration, with the smaller graphs
ConfigCases == Layers \X ValidCalls(MaxNodes - 1, MaxEdges - 1, "some")

\* the layers and calls explored: every graph with a plain layer, every
\* configuration with the smaller graphs, unchecked relation ids with a plain
\* layer and the smaller graphs, and the N=4 scenario
ConvCases ==
    (PlainLayers \X ValidCalls(MaxNodes, MaxEdges, "some"))
        \cup ConfigCases
        \cup (PlainLayers \X UncheckedCalls(MaxNodes - 1, MaxEdges - 1))
        \cup (PlainLayers \X ScenarioCalls)

\* ------------------------------------------------ the layer's forward call
DoForward(inp, keep_in, keep_out) ==
    /\ attrs' = ForwardAttrs(layer, inp)
    /\ res' = forward(layer, inp, keep_in, keep_out)
    /\ drawn' = [status |-> "set", keep_in |-> keep_in, keep_out |-> keep_out]
    /\ UNCHANGED <<layer, call>>

\* the draws the two dropouts of a call on the inputs call can make
CallDraws == Draws(layer.dropout, Size(call.ent_embed))

Forward ==
    /\ res.status = "none"
    /\ \E keep_in \in CallDraws, keep_out \in CallDraws : DoForward(call, keep_in, keep_out)
    /\ UNCHANGED <<memo, normVars, distVars, lossVars>>

InitCases(cases) ==
    /\ \E c \in cases : layer = c[1] /\ call = c[2]
    /\ attrs = NoAttrs
    /\ res = NoResult
    /\ drawn = NoResult
    /\ memo = NoMemo
    /\ normCall = Idle
    /\ normOut = Idle
    /\ distCall = Idle
    /\ distOut = Idle
    /\ lossObj = Idle
    /\ lossCall = Idle
    /\ lossRes = Idle

InitConv == InitCases(ConvCases)

SpecConv == InitConv /\ [][Forward]_vars

\* ------------------------------------------------ repeated calls
\* calls without a mask on the smaller graphs, and the call made in between
RepeatedCalls == ValidCalls(MaxNodes - 1, MaxEdges - 1, "none")

OtherCalls == ScenarioCalls

\* a call with the inputs call, the first or the second one; memo keeps the
\* result of the first one
ForwardAgain ==
    /\ memo.status = "set" => ~memo.again
    /\ \E keep_in \in CallDraws, keep_out \in CallDraws : DoForward(call, keep_in, keep_out)
    /\ memo' = IF memo.status = "none"
               THEN [status |-> "set", res |-> res', again |-> FALSE, between |-> FALSE]
               ELSE [memo EXCEPT !.again = TRUE]
    /\ UNCHANGED <<normVars, distVars, lossVars>>

\* a call with other inputs, made after the first call; what it returns is
\* not kept
ForwardOther ==
    /\ memo.status = "set"
    /\ ~memo.again
    /\ \E inp \in OtherCalls : attrs' = ForwardAttrs(layer, inp)
    /\ memo' = [memo EXCEPT !.between = TRUE]
    /\ UNCHANGED <<layer, call, res, drawn, normVars, distVars, lossVars>>

InitRepeat ==
    /\ layer \in Layers
    /\ call \in RepeatedCalls
    /\ attrs = NoAttrs
    /\ res = NoResult
    /\ drawn = NoResult
    /\ memo = NoMemo
    /\ normCall = Idle
    /\ normOut = Idle
    /\ distCall = Idle
    /\ distOut = Idle
    /\ lossObj = Idle
    /\ lossCall = Idle
    /\ lossRes = Idle

SpecRepeat == InitRepeat /\ [][ForwardAgain \/ ForwardOther]_vars

\* ------------------------------------------------ InvLReLUDistance alone
\* the slopes the constructor is given: it takes any number
Slopes == {Rat(-1, 1), Rat(0, 1), Rat(1, 1000), Rat(1, 1), Rat(2, 1)}

Dots == (-2)..2

\* one sample of two bands: a band and the same band with one dot product
\* raised
RaisedPairs(h) ==
    {[b \in {0} |-> [band \in {0, 1} |-> IF band = 0 THEN x ELSE [x EXCEPT ![k] = y]]] :
        x \in Tensors(h, Dots), k \in 0..(h - 1), y \in Dots}

DistCalls ==
    {c \in UNION {{[pos_slope |-> sl, x |-> x, num_hyperplanes |-> h] :
                      sl \in Slopes, x \in RaisedPairs(h)} : h \in 1..MaxHyper} :
        \A k \in DOMAIN c.x[0][0] : c.x[0][1][k] >= c.x[0][0][k]}

InitDist ==
    /\ distCall \in DistCalls
    /\ distOut = NoResult
    /\ layer = Idle /\ attrs = Idle /\ call = Idle /\ res = Idle /\ memo = Idle
    /\ drawn = Idle
    /\ normCall = Idle /\ normOut = Idle
    /\ lossObj = Idle /\ lossCall = Idle /\ lossRes = Idle

DistForward ==
    /\ distOut.status = "none"
    /\ distOut' = [status |-> "ok", d |-> InvLReLUForward(distCall.pos_slope, distCall.x)]
    /\ UNCHANGED <<distCall, convVars, normVars, lossVars>>

SpecDist == InitDist /\ [][DistForward]_vars

\* ------------------------------------------------ AnswerSpaceLoss alone
\* exp(-1) = 0.3678..., as the fractions 1/3 and 2/5 on either side of it
ExpBases == {Rat(1, 3), Rat(2, 5)}

\* the arguments of __init__ and what the object computes with: a distance
\* of whole slope, an aggregation name, the base of the softmin
LossArgs ==
    {[aggr |-> a, pos_slope |-> sl, base |-> Rat(1, 3), asserts |-> TRUE] :
         a \in {"min", "mean"}, sl \in {Rat(0, 1), Rat(1, 1)}}
    \cup {[aggr |-> "softmin", pos_slope |-> sl, base |-> x, asserts |-> TRUE] :
              sl \in {Rat(0, 1), Rat(1, 1)}, x \in ExpBases}
    \cup {[aggr |-> "max", pos_slope |-> Rat(1, 1), base |-> Rat(1, 3), asserts |-> as] :
              as \in BOOLEAN}

\* the vector c * e_0
Axis(c) == [e \in Feats |-> IF e = 0 THEN c ELSE 0]

\* the first hyperplane of each band of the first sample is free; the other
\* hyperplanes are r * e_0 and the other samples' first hyperplanes -e_0
LossCallsOver(batch, bands, hyper) ==
    {[hyp |-> [b \in 0..(batch - 1) |->
                 [band \in 0..(bands - 1) |->
                     [h \in 0..(hyper - 1) |->
                         IF h > 0 THEN Axis(r) ELSE IF b = 0 THEN Axis(c[band]) ELSE Axis(-1)]]],
      pos_embeds |-> [b \in 0..(batch - 1) |-> Axis(1)],
      neg_embeds |-> [b \in 0..(batch - 1) |-> Axis(-1)]] :
        c \in Tensors(bands, {-1, 0, 1}), r \in {-1, 0}}

LossCalls ==
    UNION {LossCallsOver(t[1], t[2], t[3]) :
               t \in (1..MaxBatch) \X (1..MaxBands) \X (1..MaxHyper)}

\* AnswerSpaceLoss.__init__
LossInit ==
    /\ lossObj.status = "new"
    /\ lossObj' = IF LossInitRaises(lossObj.aggr, lossObj.asserts)
                  THEN [lossObj EXCEPT !.status = "error"]
                  ELSE [lossObj EXCEPT !.status = "ready"]
    /\ UNCHANGED <<lossCall, lossRes, convVars, normVars, distVars>>

\* AnswerSpaceLoss.forward
LossCallForward ==
    /\ lossObj.status = "ready"
    /\ lossRes.status = "none"
    /\ lossRes' = LossForward(lossObj, lossCall)
    /\ UNCHANGED <<lossObj, lossCall, convVars, normVars, distVars>>

InitLoss ==
    /\ \E a \in LossArgs :
           lossObj = [status |-> "new", aggr |-> a.aggr, pos_slope |-> a.pos_slope,
                      base |-> a.base, asserts |-> a.asserts]
    /\ lossCall \in LossCalls
    /\ lossRes = NoResult
    /\ layer = Idle /\ attrs = Idle /\ call = Idle /\ res = Idle /\ memo = Idle
    /\ drawn = Idle
    /\ normCall = Idle /\ normOut = Idle
    /\ distCall = Idle /\ distOut = Idle

SpecLoss == InitLoss /\ [][LossInit \/ LossCallForward]_vars

\* ------------------------------------------------ the configuration names
\* the layers of every operator name with the smaller graphs, and the losses
InitConfig == InitCases(ConfigCases) \/ InitLoss

SpecConfig == InitConfig /\ [][Forward \/ LossInit \/ LossCallForward]_vars

\* ------------------------------------------------ compute_norm alone
InitNorm ==
    /\ normCall \in NormCalls
    /\ normOut = NoResult
    /\ layer = Idle
    /\ attrs = Idle
    /\ call = Idle
    /\ res = Idle
    /\ drawn = Idle
    /\ memo = Idle
    /\ distCall = Idle
    /\ distOut = Idle
    /\ lossObj = Idle
    /\ lossCall = Idle
    /\ lossRes = Idle

ComputeNorm ==
    /\ normOut.status = "none"
    /\ normOut' = [status |-> "ok",
                   norm |-> compute_norm(normCall.edge_index, normCall.num_ent)]
    /\ UNCHANGED <<normCall, convVars, distVars, lossVars>>

SpecNorm == InitNorm /\ [][ComputeNorm]_vars

\* ------------------------------------------------ C3
Degree(v) ==
    Cardinality({k \in DOMAIN normCall.edge_index[0] : normCall.edge_index[0][k] = v})

Finite(w) == w.kind \in {"zero", "rsqrt"}

\* C3: every weight compute_norm returns is finite and non-negative; it is
\* exactly 0 when the degree (the number of edges with that row index) of the
\* edge's row or col node is 0, and otherwise its square times deg(row) *
\* deg(col) is 1, that is, it is (deg(row) * deg(col))^(-1/2).
C3_NormFinite ==
    normOut.status = "ok" =>
        /\ DOMAIN normOut.norm = DOMAIN normCall.edge_index[0]
        /\ \A k \in DOMAIN normOut.norm :
               LET dr == Degree(normCall.edge_index[0][k])
                   dc == Degree(normCall.edge_index[1][k])
                   w == normOut.norm[k]
               IN  /\ Finite(w)
                   /\ (dr = 0 \/ dc = 0) => w = Zero
                   /\ (dr # 0 /\ dc # 0) => w.kind = "rsqrt" /\ w.r = dr * dc

\* an edge into a node with no outgoing edge (weight 0), next to an edge whose
\* end points have a degree above 1
C3_Witness ==
    /\ normOut.status = "ok"
    /\ \E k \in DOMAIN normOut.norm : normOut.norm[k] = Zero
    /\ \E k \in DOMAIN normOut.norm :
           normOut.norm[k].kind = "rsqrt" /\ normOut.norm[k].r > 1

\* ------------------------------------------------ equality of values
RECURSIVE Factorial(_)
Factorial(n) == IF n = 0 THEN 1 ELSE n * Factorial(n - 1)

\* the largest s with s * s dividing k, and the square-free rest
SquarePart(k) == CHOOSE s \in 1..k : k % (s * s) = 0 /\ \A t \in (s + 1)..k : k % (t * t) # 0
SquareFree(k) == k \div (SquarePart(k) * SquarePart(k))

RECURSIVE SetSum(_, _)
SetSum(S, c) == IF S = {} THEN 0 ELSE LET k == CHOOSE k \in S : TRUE
                                       IN  c[k] + SetSum(S \ {k}, c)

\* sum_k c[k] / sqrt(k) over the square-free radicands, times MaxEdges!: the
\* square roots of distinct square-free numbers are linearly independent, so
\* two numbers are equal exactly when these coefficients are
Canonical(a) ==
    [f \in {SquareFree(k) : k \in Rads} |->
        SetSum({k \in Rads : SquareFree(k) = f},
               [k \in Rads |-> a[k] * (Factorial(MaxEdges) \div SquarePart(k))])]

LinRowEq(a, b) ==
    \A j \in Feats :
        \A f \in DOMAIN Canonical(a.num[j]) :
            Canonical(a.num[j])[f] * b.den = Canonical(b.num[j])[f] * a.den

\* the rows a and b of an output hold the same values
RowEq(a, b) ==
    \/ a = b
    \/ /\ a.kind = b.kind
       /\ a.kind = "lin" => LinRowEq(a, b)
       /\ a.kind = "bn" =>
              /\ a.at = b.at
              /\ DOMAIN a.batch = DOMAIN b.batch
              /\ \A v \in DOMAIN a.batch : LinRowEq(a.batch[v], b.batch[v])

Returned == res.status = "ok"

\* ------------------------------------------------ C1
\* C1: when forward returns and an entity mask was given, every row the mask
\* selects is the input row, and the other rows are the rows the same call
\* computes without a mask, with the same dropout draws.
C1_MaskedRowsKept ==
    (Returned /\ ~call.ent_mask.none) =>
        /\ \A i \in DOMAIN call.ent_embed :
               call.ent_mask.sel[i] => RowEq(res.out[i], InputRow(call.ent_embed[i]))
        /\ LET plain == ForwardValue(layer, [call EXCEPT !.ent_mask = NoMask],
                                     drawn.keep_in, drawn.keep_out)
           IN  \A i \in DOMAIN call.ent_embed :
                   ~call.ent_mask.sel[i] => RowEq(res.out[i], plain.out[i])

\* a masked node that receives a forward message, next to an unmasked one, in
\* a layer with bias, batch norm and dropout
C1_Witness ==
    /\ Returned
    /\ ~call.ent_mask.none
    /\ layer.use_bias /\ layer.use_bn /\ layer.dropout.n # 0
    /\ \E i \in DOMAIN call.ent_embed :
           /\ call.ent_mask.sel[i]
           /\ \E k \in DOMAIN call.edge_type : call.edge_index[0][k] = i
           /\ res.out[i] = InputRow(call.ent_embed[i])
    /\ \E i \in DOMAIN call.ent_embed : ~call.ent_mask.sel[i] /\ res.out[i].kind = "bn"

\* ------------------------------------------------ C2
\* C2: the relation matrix forward returns has as many rows as the one it was
\* given, and its row k is input row k times w_rel: the row dropped is the
\* last one, the self-loop relation's.
C2_RelationRows ==
    Returned =>
        /\ DOMAIN res.rel = DOMAIN call.rel_embed
        /\ \A k \in DOMAIN call.rel_embed :
               res.rel[k] = RowTimesMatrix(call.rel_embed[k], layer.w_rel)

\* two relation rows came back, and the self-loop row's projection is not
\* among them
C2_Witness ==
    /\ Returned
    /\ Size(call.rel_embed) = 2
    /\ Size(res.rel) = 2
    /\ \A k \in DOMAIN res.rel : res.rel[k] # RowTimesMatrix(layer.loop_rel[0], layer.w_rel)

\* ------------------------------------------------ C4
\* the number E of relations, for a relation matrix of 2E rows
NumRelations == Size(call.rel_embed) \div 2

EvenRelRows == Size(call.rel_embed) % 2 = 0

\* C4: forward returns nothing when an edge_type entry lies outside [0, E).
C4_OutOfRangeTypeRaises ==
    (Returned /\ EvenRelRows /\ NumRelations >= 1) =>
        \A k \in DOMAIN call.edge_type : call.edge_type[k] \in 0..(NumRelations - 1)

\* ------------------------------------------------ C9
IsScenario == call \in ScenarioCalls

IsPlain == layer \in PlainLayers

\* the row (x - r) W, as numbers
SubProjected(x, r, W) ==
    LET y == RowTimesMatrix([j \in Feats |-> x[j] - r[j]], W)
    IN  [j \in Feats |-> NumOfInt(y[j])]

\* the nodes no forward message arrives at
NoForwardMessage(v) == \A k \in DOMAIN call.edge_type : call.edge_index[0][k] # v

\* C9: in the scenario the output has 4 rows of Dim entries and row 2 is a
\* third of the self-loop message of node 2 plus the inverse message of edge
\* (1,2), (x[1] - rel[3]) w_out; with opn sub, no bias, no batch norm, no
\* dropout and no mask, the row of a node without forward message is a third
\* of its self-loop and inverse-edge aggregates.
C9_ScenarioRow ==
    (Returned /\ IsPlain /\ call.ent_mask.none) =>
        /\ IsScenario =>
               /\ DOMAIN res.out = 0..3
               /\ \A v \in 0..3 : DOMAIN res.out[v].num = Feats
               /\ LET loop == SubProjected(call.ent_embed[2], layer.loop_rel[0], layer.w_loop)
                      inv == SubProjected(call.ent_embed[1], call.rel_embed[3], layer.w_out)
                  IN  RowEq(res.out[2], LinRow([j \in Feats |-> NumAdd(loop[j], inv[j])], 3))
        /\ \A v \in DOMAIN call.ent_embed :
               (NoForwardMessage(v) /\ \A k \in DOMAIN call.edge_type :
                                           call.edge_type[k] \in ValidTypes(Size(call.rel_embed))) =>
                   LET rel_embed == RelCat(layer, call)
                       x == call.ent_embed
                       loop_res == propagate(layer, attrs.loop_index, x, attrs.loop_type,
                                             rel_embed, NoNorm, "loop")
                       out_res == propagate(layer, attrs.out_index, x, attrs.out_type,
                                            rel_embed, Norm(attrs.out_norm), "out")
                   IN  RowEq(res.out[v],
                             LinRow([j \in Feats |-> NumAdd(loop_res[v][j], out_res[v][j])], 3))

C9_Witness ==
    /\ Returned /\ IsPlain /\ IsScenario
    /\ layer.w_out # layer.w_loop
    /\ \E j \in Feats : res.out[2].num[j] # NumZero

\* ------------------------------------------------ C10
TypesValid == \A k \in DOMAIN call.edge_type : call.edge_type[k] \in 0..(NumRelations - 1)

\* the number of forward edges leaving v, and of inverse edges leaving v
ForwardDegree(v) == Cardinality({k \in DOMAIN call.edge_type : call.edge_index[0][k] = v})
InverseDegree(v) == Cardinality({k \in DOMAIN call.edge_type : call.edge_index[1][k] = v})

WeightFor(dr, dc) == IF dr = 0 \/ dc = 0 THEN Zero ELSE RSqrt(dr * dc)

\* C10: after a forward call with 2E relation rows and relation ids in
\* [0, E), the inverse edges are the forward edges with end points swapped and
\* ids shifted by E, all in [E, 2E); the self loops are the N edges (i, i) with
\* id 2E; the forward weights count forward edges only and the inverse weights
\* inverse edges only.
C10_EdgeSynthesis ==
    (res.status # "none" /\ EvenRelRows /\ TypesValid) =>
        LET E == NumRelations
            M == DOMAIN call.edge_type
            fwd == call.edge_index
        IN  /\ attrs.in_index = fwd
            /\ attrs.in_type = call.edge_type
            /\ DOMAIN attrs.out_index[0] = M /\ DOMAIN attrs.out_index[1] = M
            /\ DOMAIN attrs.out_type = M
            /\ \A k \in M :
                   /\ attrs.out_index[0][k] = fwd[1][k]
                   /\ attrs.out_index[1][k] = fwd[0][k]
                   /\ attrs.out_type[k] = call.edge_type[k] + E
                   /\ attrs.out_type[k] \in E..(2 * E - 1)
                   /\ attrs.in_type[k] # 2 * E
                   /\ attrs.in_norm[k] = WeightFor(ForwardDegree(fwd[0][k]),
                                                   ForwardDegree(fwd[1][k]))
                   /\ attrs.out_norm[k] = WeightFor(InverseDegree(fwd[1][k]),
                                                    InverseDegree(fwd[0][k]))
            /\ DOMAIN attrs.loop_type = DOMAIN call.ent_embed
            /\ \A i \in DOMAIN call.ent_embed :
                   /\ attrs.loop_index[0][i] = i
                   /\ attrs.loop_index[1][i] = i
                   /\ attrs.loop_type[i] = 2 * E

\* two edges of one relation between three nodes, whose forward and inverse
\* weights differ
C10_Witness ==
    /\ Returned /\ EvenRelRows /\ TypesValid
    /\ Size(call.edge_type) = 2 /\ Size(call.ent_embed) = 3
    /\ \E k \in DOMAIN call.edge_type :
           /\ attrs.in_norm[k] # attrs.out_norm[k]
           /\ call.edge_index[0][k] # call.edge_index[1][k]

\* ------------------------------------------------ C8
SameResult(a, b) ==
    /\ a.status = b.status
    /\ a.status = "error" => a.error = b.error
    /\ a.status = "ok" =>
           /\ a.rel = b.rel
           /\ DOMAIN a.out = DOMAIN b.out
           /\ \A v \in DOMAIN a.out : RowEq(a.out[v], b.out[v])

C5_UnknownNameRaises ==
    /\ (layer # Idle /\ layer.opn \notin Operators /\ res.status # "none") =>
           res.status = "error"
    /\ (lossObj # Idle /\ lossObj.aggr \notin Aggregations) =>
           /\ lossRes.status # "ok"
           /\ lossObj.status = "ready" => (lossRes.status = "none" \/ lossRes.status = "error")
           /\ (lossObj.status = "new" \/ lossObj.status = "error") => lossRes.status = "none"
           /\ (lossObj.asserts /\ lossObj.status # "new") => lossObj.status = "error"

\* a forward call with an unknown operator name and an empty edge list raised
C5_Witness ==
    /\ layer # Idle
    /\ layer.opn \notin Operators
    /\ Size(call.edge_type) = 0
    /\ res.status = "error" /\ res.error = "NotImplementedError"

\* ------------------------------------------------ C6
\* one band at distance 0, the others at distance 1, two bands or more
OneBandExact(d) ==
    /\ Size(d) >= 2
    /\ Cardinality({b \in DOMAIN d : RatEq(d[b], Rat(0, 1))}) = 1
    /\ \A b \in DOMAIN d : RatEq(d[b], Rat(0, 1)) \/ RatEq(d[b], Rat(1, 1))

\* C6: for a sample with one band at distance 0 and the others at 1, the min
\* aggregate is 0, the mean aggregate (num_bands - 1) / num_bands, and the
\* softmin aggregate lies strictly between 0 and that mean.
C6_Aggregates ==
    (lossObj # Idle /\ lossRes.status = "ok") =>
        \A b \in DOMAIN lossRes.p :
            OneBandExact(lossRes.d_true[b]) =>
                LET B == Size(lossRes.d_true[b])
                    p == lossRes.p[b]
                IN  /\ lossObj.aggr = "min" => RatEq(p, Rat(0, 1))
                    /\ lossObj.aggr = "mean" => RatEq(p, Rat(B - 1, B))
                    /\ lossObj.aggr = "softmin" =>
                           RatLess(Rat(0, 1), p) /\ RatLess(p, Rat(B - 1, B))

\* a softmin loss returned for three bands, one of them exact
C6_Witness ==
    /\ lossObj # Idle /\ lossRes.status = "ok"
    /\ lossObj.aggr = "softmin"
    /\ Size(lossRes.d_true[0]) = 3
    /\ OneBandExact(lossRes.d_true[0])
    /\ lossRes.ret[2] = RatMean(lossRes.p)

\* ------------------------------------------------ C7
\* C7 as stated: raising one dot product never raises the band distance,
\* whatever slope the constructor was given.
C7_MonotoneForEverySlope ==
    distOut.status = "ok" => RatLeq(distOut.d[0][1], distOut.d[0][0])

\* C7, amended: it never does when pos_slope >= 0.
C7_MonotoneForPositiveSlope ==
    (distOut.status = "ok" /\ distCall.pos_slope.n >= 0) =>
        RatLeq(distOut.d[0][1], distOut.d[0][0])

\* with the default slope, a dot product raised from below 0 to above 0
\* lowered the distance
C7_Witness ==
    /\ distOut.status = "ok"
    /\ distCall.pos_slope = Rat(1, 1000)
    /\ \E k \in DOMAIN distCall.x[0][0] : distCall.x[0][0][k] < 0 /\ distCall.x[0][1][k] > 0
    /\ RatLess(distOut.d[0][1], distOut.d[0][0])

\* ------------------------------------------------ C11
\* a sample whose band distances are all at least 0
NonNegative(d) == \A k \in DOMAIN d : RatLeq(Rat(0, 1), d[k])

\* sum_k w[k] * d[k]
WeightedSum(w, d) == RatSumTo([k \in DOMAIN d |-> RatTimes(d[k], w[k])], Size(d))

\* C11: the softmin aggregate of a sample is the sum of w_b * d_b over its
\* bands, with weights that are positive, sum to 1 and are larger for smaller
\* distances; for non-negative distances it is at least the min aggregate and
\* at most the mean aggregate, and it is d when every band has distance d.
C11_SoftminWeightedMean ==
    (lossObj # Idle /\ lossRes.status = "ok" /\ lossObj.aggr = "softmin") =>
        \A b \in DOMAIN lossRes.p :
            LET d == lossRes.d_true[b]
                w == Softmin(lossObj.base, d)
                p == lossRes.p[b]
                B == Size(d)
            IN  /\ \A k \in DOMAIN d : RatLess(Rat(0, 1), w[k])
                /\ RatEq(RatSumTo(w, B), Rat(1, 1))
                /\ \A j, k \in DOMAIN d : RatLess(d[j], d[k]) => RatLess(w[k], w[j])
                /\ RatEq(p, WeightedSum(w, d))
                /\ NonNegative(d) =>
                       /\ RatLeq(RatMinTo(d, B), p)
                       /\ RatLeq(p, RatMean(d))
                /\ (\A k \in DOMAIN d : RatEq(d[k], d[0])) => RatEq(p, d[0])
====
